---- MODULE Spec2Model ----
(***************************************************************************)
(* Retry-and-failover policy of the OpenAI client load-balancing sample:   *)
(*   mockRetryPolicy.sendRequest      (mockRetry.ts)                       *)
(*   roundRobinThrottlingStrategy     (roundRobinThrottlingStrategy.ts)    *)
(*   OpenAIEndpointCoordinator        (cookbook index.ts)                  *)
(*                                                                         *)
(* JavaScript values are tagged records, so that `undefined`, numbers,     *)
(* strings and objects can be compared with one another.                   *)
(***************************************************************************)
EXTENDS Integers, Sequences, FiniteSets, TLC

(* ------------------------------ bounds -------------------------------- *)
\* largest explicit options.maxRetries drawn by Init
MaxRetriesBound == 2
\* longest strategy list drawn by Init
MaxStrategies == 2
\* longest endpoint list handed to roundRobinThrottlingStrategy
MaxHosts == 2
\* most sendRequest calls of the coordinator's policies in one run
MaxPolicyCalls == 5

(* -------------------------- program constants ------------------------- *)
DEFAULT_RETRY_POLICY_COUNT == 3
RetryAfterHeader == "Retry-After"
AllRetryAfterHeadersRetryAfterFirst ==
    <<RetryAfterHeader, "retry-after-ms", "x-ms-retry-after-ms">>
AllRetryAfterHeaders == <<"retry-after-ms", "x-ms-retry-after-ms", RetryAfterHeader>>
ThrottlingStatusCodes == {429, 503}
SecondsToMs == 1000

(* --------------------------- JavaScript values ------------------------ *)
Undefined == [tag |-> "undefined"]
Num(n) == [tag |-> "number", kind |-> "finite", v |-> n]
NaN == [tag |-> "number", kind |-> "nan", v |-> 0]
PosInfinity == [tag |-> "number", kind |-> "infinity", v |-> 0]

\* header strings: "", a decimal literal, "Infinity", text that is neither a
\* number nor a date, and an HTTP date (v is its Date.parse timestamp)
EmptyStr == [tag |-> "string", kind |-> "empty", v |-> 0]
Decimal(n) == [tag |-> "string", kind |-> "decimal", v |-> n]
InfinityStr == [tag |-> "string", kind |-> "infinity", v |-> 0]
TextStr == [tag |-> "string", kind |-> "text", v |-> 0]
HttpDate(t) == [tag |-> "string", kind |-> "date", v |-> t]

\* ToBoolean: undefined, "", 0 and NaN are falsy, every object is truthy
Truthy(x) ==
    CASE x.tag = "undefined" -> FALSE
      [] x.tag = "string" -> x.kind # "empty"
      [] x.tag = "number" -> (x.kind = "infinity") \/ (x.kind = "finite" /\ x.v # 0)
      [] OTHER -> TRUE

\* Number(value) on a header string
JsNumber(s) ==
    CASE s.kind = "empty" -> Num(0)
      [] s.kind = "decimal" -> Num(s.v)
      [] s.kind = "infinity" -> PosInfinity
      [] OTHER -> NaN

IsNaN(x) == x.tag = "number" /\ x.kind = "nan"

\* Number.isFinite: false for undefined, NaN and Infinity
IsFinite(x) == x.tag = "number" /\ x.kind = "finite"

\* x === 0
IsZero(x) == x.tag = "number" /\ x.kind = "finite" /\ x.v = 0

\* Date.parse(value)
DateParse(s) == IF s.kind = "date" THEN Num(s.v) ELSE NaN

\* x * f for a positive factor f
JsTimes(x, f) == IF x.kind = "finite" THEN Num(x.v * f) ELSE x

\* x - n
JsMinus(x, n) == IF x.kind = "finite" THEN Num(x.v - n) ELSE x

Max(a, b) == IF a >= b THEN a ELSE b

(* ------------------------------- URLs --------------------------------- *)
\* A URL string: a base (scheme+host and whatever the endpoint string holds
\* after it), a path (its segments) and a query string. base "undefined" is
\* the text JavaScript writes for `undefined + pathname + search`, which is
\* no absolute URL.
Url(base, path, search) ==
    [tag |-> "string", kind |-> "url", base |-> base, path |-> path, search |-> search]

Endpoint(base) == [tag |-> "string", kind |-> "endpoint", base |-> base]

OriginalBase == "https://example.com"
OriginalPath == <<"openai", "chat">>
OriginalSearch == "?api-version=1"
OriginalUrl == Url(OriginalBase, OriginalPath, OriginalSearch)

\* new URL(s) throws a TypeError when s is no absolute URL
UrlIsValid(u) == u.base # "undefined"

\* the path of the URL reference a string is: with a scheme and host in
\* front it is the text between them and the query; without them (the text
\* begins with the word undefined) the reference is relative and its path
\* begins with that word
Pathname(u) == IF UrlIsValid(u) THEN u.path ELSE <<u.base>> \o u.path

\* backupEndpoint + currentUrl.pathname + currentUrl.search
ConcatUrl(backupEndpoint, pathname, search) ==
    IF backupEndpoint.tag = "undefined"
    THEN Url("undefined", pathname, search)
    ELSE Url(backupEndpoint.base, pathname, search)

\* openAiHosts[i] with JavaScript's 0-based index; undefined out of range
HostAt(openAiHosts, i) ==
    IF i + 1 \in 1..Len(openAiHosts) THEN openAiHosts[i + 1] ELSE Undefined

(* ------------------------------ responses ----------------------------- *)
HeaderNames == {AllRetryAfterHeaders[i] : i \in 1..Len(AllRetryAfterHeaders)}

NoHeaders == [h \in HeaderNames |-> Undefined]

\* attempt is the retryCount of the attempt that produced the response
Response(status, headers, attempt) ==
    [tag |-> "response", status |-> status, headers |-> headers, attempt |-> attempt]

\* response.headers.get(headerName)
HeaderGet(response, headerName) == response.headers[headerName]

(* ---------------- roundRobinThrottlingStrategy.ts --------------------- *)
ParseHeaderValueAsNumber(response, headerName) ==
    LET value == HeaderGet(response, headerName) IN
    IF ~Truthy(value) THEN Undefined
    ELSE LET valueAsNum == JsNumber(value) IN
         IF IsNaN(valueAsNum) THEN Undefined ELSE valueAsNum

\* the header's value is used: retryAfterValue === 0 || retryAfterValue
HeaderValueAccepted(retryAfterValue) ==
    IsZero(retryAfterValue) \/ Truthy(retryAfterValue)

MultiplyingFactor(header) == IF header = RetryAfterHeader THEN SecondsToMs ELSE 1

\* the for loop over AllRetryAfterHeaders, from index i on: the value
\* returned from inside the loop, or [tag |-> "none"] when the loop ends
RECURSIVE HeaderLoop(_, _)
HeaderLoop(response, i) ==
    IF i > Len(AllRetryAfterHeaders) THEN [tag |-> "none"]
    ELSE LET header == AllRetryAfterHeaders[i]
             retryAfterValue == ParseHeaderValueAsNumber(response, header)
         IN IF HeaderValueAccepted(retryAfterValue)
            THEN JsTimes(retryAfterValue, MultiplyingFactor(header))
            ELSE HeaderLoop(response, i + 1)

\* the fallback after the loop: Retry-After as a date
RetryAfterDate(response, now) ==
    LET retryAfterHeader == HeaderGet(response, RetryAfterHeader) IN
    IF ~Truthy(retryAfterHeader) THEN Undefined
    ELSE LET date == DateParse(retryAfterHeader)
             diff == JsMinus(date, now)
         IN IF IsFinite(diff) THEN Num(Max(0, diff.v)) ELSE Undefined

GetRetryAfterInMs(response, now) ==
    IF ~(Truthy(response) /\ response.status \in ThrottlingStatusCodes)
    THEN Undefined
    ELSE LET fromLoop == HeaderLoop(response, 1) IN
         IF fromLoop.tag # "none" THEN fromLoop ELSE RetryAfterDate(response, now)

IsThrottlingByStatusOnly(response, now) ==
    Truthy(response) /\ response.status \in ThrottlingStatusCodes

IsThrottlingRetryResponse(response, now) ==
    IsFinite(GetRetryAfterInMs(response, now))

(* ------------------------- retry modifiers ---------------------------- *)
Modifiers(skip, err, wait, redirect) ==
    [tag |-> "modifiers", skipStrategy |-> skip, errorToThrow |-> err,
     retryAfterInMs |-> wait, redirectTo |-> redirect]

SkipVerdict == Modifiers(TRUE, Undefined, Undefined, Undefined)
ThrowVerdict(e) == Modifiers(FALSE, e, Undefined, Undefined)
WaitVerdict(ms) == Modifiers(FALSE, Undefined, Num(ms), Undefined)
RedirectVerdict(u) == Modifiers(FALSE, Undefined, Undefined, u)

\* a strategy's retry() that throws instead of returning modifiers
Raises(e) == [tag |-> "raises", error |-> e]

ErrorNamed(name) == [tag |-> "error", name |-> name]
RestError(response, attempt) ==
    [tag |-> "error", name |-> "RestError", response |-> response, attempt |-> attempt]
AbortError == ErrorNamed("AbortError")
TypeError == ErrorNamed("TypeError")
StrategyError == ErrorNamed("StrategyError")
NoOutcomeError == ErrorNamed("Error: Maximum retries reached with no response or error to throw")

\* (mutant) the index expression without its offset
BackupIndexNoOffset(openAiHosts, retryCount) == retryCount % Len(openAiHosts)

\* the index expression retryCount % openAiHosts.length + 1
BackupIndex(openAiHosts, retryCount) == (retryCount % Len(openAiHosts)) + 1

\* (mutant) an attempt that left no response is redirected like a throttled one
RoundRobinRetryWithoutResponse(openAiHosts, response, retryCount, requestUrl, now) ==
    IF Truthy(response) /\ ~IsThrottlingRetryResponse(response, now) THEN SkipVerdict
    ELSE IF ~UrlIsValid(requestUrl) THEN Raises(TypeError)
    ELSE LET backupEndpoint == HostAt(openAiHosts, BackupIndex(openAiHosts, retryCount))
         IN RedirectVerdict(ConcatUrl(backupEndpoint, requestUrl.path, requestUrl.search))

\* roundRobinThrottlingStrategy(openAiHosts).retry({response, retryCount});
\* requestUrl is response.request.url
RoundRobinRetry(openAiHosts, response, retryCount, requestUrl, now) ==
    IF ~IsThrottlingRetryResponse(response, now) THEN SkipVerdict
    ELSE IF ~UrlIsValid(requestUrl) THEN Raises(TypeError)
    ELSE LET backupEndpoint == HostAt(openAiHosts, BackupIndex(openAiHosts, retryCount))
         IN RedirectVerdict(ConcatUrl(backupEndpoint, requestUrl.path, requestUrl.search))

(* --------------------------- configuration ---------------------------- *)
AllHosts ==
    <<Endpoint(OriginalBase), Endpoint("https://backup1.example"),
      Endpoint("https://backup2.example"), Endpoint("https://backup3.example")>>

HostLists == {SubSeq(AllHosts, 1, n) : n \in 1..MaxHosts}

\* the strategies a caller may configure: one that may give any well-formed
\* verdict (exactly one populated field), one that always asks to wait, and
\* the repository's roundRobinThrottlingStrategy over a host list
AnyStrategy == [kind |-> "any"]
AlwaysWaitStrategy == [kind |-> "alwaysWait"]
RoundRobinStrategy(openAiHosts) == [kind |-> "roundRobin", openAiHosts |-> openAiHosts]

StrategyKinds ==
    {AnyStrategy, AlwaysWaitStrategy} \cup {RoundRobinStrategy(h) : h \in HostLists}

StrategyLists == UNION {[1..n -> StrategyKinds] : n \in 0..MaxStrategies}

MaxRetriesOptions == {Undefined} \cup {Num(n) : n \in 0..MaxRetriesBound}

WaitDurations == {0, 10}
RedirectTargets == {Url("https://elsewhere.example", OriginalPath, OriginalSearch)}
ClockReadings == {50, 150}

(* ----------------------------- Transport ------------------------------ *)
\* (mutant) the imitated 429 carries no wait header
SyntheticResponseWithoutHeader(attempt) == Response(429, NoHeaders, attempt)

SyntheticResponse(attempt) ==
    Response(429, [NoHeaders EXCEPT !["retry-after-ms"] = Decimal(1000)], attempt)

\* what next(request) may resolve to on the given attempt
TransportResponses(attempt) ==
    { Response(200, NoHeaders, attempt),
      Response(429, [NoHeaders EXCEPT !["retry-after-ms"] = Decimal(0)], attempt),
      Response(503, NoHeaders, attempt) }

\* what next(request) may throw: a RestError with or without a response, an
\* error of another class, a falsy value, and, once the signal has fired,
\* an AbortError
TransportFailures(attempt, aborted) ==
    {RestError(r, attempt) : r \in TransportResponses(attempt) \cup {Undefined}}
        \cup {TypeError, Undefined}
        \cup (IF aborted THEN {AbortError} ELSE {})

(* ------------------------------- state -------------------------------- *)
VARIABLES
    strategies,        \* mockRetryPolicy's strategies argument
    maxRetries,        \* options.maxRetries
    signal,            \* request.abortSignal: "none", "idle" or "aborted"
    url,               \* request.url
    retryCount,
    response,
    responseError,
    pc,                \* where sendRequest stands
    strategyIndex,     \* position of strategiesLoop
    result,            \* what sendRequest returned or threw
    transportCalls,    \* number of next(request) calls started
    delayCount,        \* number of delay(...) calls started
    callsWhenAborted,  \* transportCalls when the signal fired, -1 before
    evaluated,         \* this attempt's strategy.retry() calls and results
    probe,             \* input and output of one retry() call on its own
    currentRetries,    \* OpenAIEndpointCoordinator.currentRetries
    openAIEndpoints,   \* OpenAIEndpointCoordinator.openAIEndpoints
    policyLog          \* the coordinator's sendRequest calls and what each did

vars == <<strategies, maxRetries, signal, url, retryCount, response, responseError,
          pc, strategyIndex, result, transportCalls, delayCount, callsWhenAborted,
          evaluated, probe,
          currentRetries, openAIEndpoints, policyLog>>

config == <<strategies, maxRetries>>

coordinator == <<currentRetries, openAIEndpoints, policyLog>>

\* no coordinator is constructed where mockRetryPolicy is used
NoCoordinator ==
    /\ currentRetries = 0
    /\ openAIEndpoints = <<>>
    /\ policyLog = <<>>

Pending == [kind |-> "pending"]
Returned(r) == [kind |-> "returned", value |-> r]
Thrown(e, by) == [kind |-> "thrown", value |-> e, by |-> by]

NoProbe == [tag |-> "none"]

Init ==
    /\ strategies \in StrategyLists
    /\ maxRetries \in MaxRetriesOptions
    /\ signal \in {"none", "idle", "aborted"}
    /\ url = OriginalUrl
    /\ retryCount = -1
    /\ response = Undefined
    /\ responseError = Undefined
    /\ pc = "attempt"
    /\ strategyIndex = 0
    /\ result = Pending
    /\ transportCalls = 0
    /\ delayCount = 0
    /\ callsWhenAborted = IF signal = "aborted" THEN 0 ELSE -1
    /\ evaluated = <<>>
    /\ probe = NoProbe
    /\ NoCoordinator

\* options.maxRetries ?? DEFAULT_RETRY_POLICY_COUNT
EffectiveMaxRetries ==
    IF maxRetries.tag = "undefined" THEN DEFAULT_RETRY_POLICY_COUNT ELSE maxRetries.v

Aborted == signal = "aborted"

Finish(r) == /\ result' = r
             /\ pc' = "done"

(* ------------------------- sendRequest, by step ----------------------- *)
\* (mutant) every attempt, the first included, goes to Transport
IsMockedAttemptNever(count) == FALSE

\* the first attempt is answered by the policy itself
IsMockedAttempt(count) == count = 0

\* top of retryRequest up to the await of next(request)
BeginAttempt ==
    /\ pc = "attempt"
    /\ retryCount' = retryCount + 1
    /\ responseError' = Undefined
    /\ evaluated' = <<>>
    /\ IF IsMockedAttempt(retryCount')
       THEN /\ response' = SyntheticResponse(retryCount')
            /\ pc' = "checkAbort"
            /\ UNCHANGED transportCalls
       ELSE /\ response' = Undefined
            /\ pc' = "inFlight"
            /\ transportCalls' = transportCalls + 1
    /\ UNCHANGED <<config, coordinator, signal, url, strategyIndex, result, delayCount,
                   callsWhenAborted, probe>>

\* next(request) resolves
TransportResponds ==
    /\ pc = "inFlight"
    /\ \E r \in TransportResponses(retryCount) : response' = r
    /\ pc' = "checkAbort"
    /\ UNCHANGED <<config, coordinator, signal, url, retryCount, responseError, strategyIndex,
                   result, transportCalls, delayCount, callsWhenAborted, evaluated, probe>>

\* (mutant) a RestError is kept only when it carries a response
IsRetryableErrorWithResponse(e) ==
    Truthy(e) /\ e.name = "RestError" /\ Truthy(e.response)

\* the catch block's test: only a RestError is kept for the strategies
IsRetryableError(e) == Truthy(e) /\ e.name = "RestError"

\* next(request) rejects: the catch block
TransportThrows ==
    /\ pc = "inFlight"
    /\ \E e \in TransportFailures(retryCount, Aborted) :
         IF IsRetryableError(e)
         THEN /\ responseError' = e
              /\ response' = e.response
              /\ pc' = "checkAbort"
              /\ UNCHANGED result
         ELSE /\ Finish(Thrown(e, "transport"))
              /\ UNCHANGED <<response, responseError>>
    /\ UNCHANGED <<config, coordinator, signal, url, retryCount, strategyIndex, transportCalls,
                   delayCount, callsWhenAborted, evaluated, probe>>

\* (mutant) the signal is looked at only when the attempt gave no error
AbortCheckOnlyOnResponse ==
    /\ pc = "checkAbort"
    /\ IF Aborted /\ ~Truthy(responseError)
       THEN Finish(Thrown(AbortError, "abortCheck"))
       ELSE /\ pc' = "checkMax"
            /\ UNCHANGED result
    /\ UNCHANGED <<config, coordinator, signal, url, retryCount, response, responseError,
                   strategyIndex, transportCalls, delayCount, callsWhenAborted,
                   evaluated, probe>>

\* if (request.abortSignal?.aborted) throw new AbortError()
AbortCheck ==
    /\ pc = "checkAbort"
    /\ IF Aborted
       THEN Finish(Thrown(AbortError, "abortCheck"))
       ELSE /\ pc' = "checkMax"
            /\ UNCHANGED result
    /\ UNCHANGED <<config, coordinator, signal, url, retryCount, response, responseError,
                   strategyIndex, transportCalls, delayCount, callsWhenAborted,
                   evaluated, probe>>

\* (mutant) the ceiling test is strict
CeilingReachedStrict(count, ceiling) == count > ceiling

\* retryCount >= (options.maxRetries ?? DEFAULT_RETRY_POLICY_COUNT)
CeilingReached(count, ceiling) == count >= ceiling

\* (mutant) at the ceiling a response is preferred to the error carrying it
CeilingOutcomeResponseFirst(resp, err) ==
    IF Truthy(resp) THEN Returned(resp)
    ELSE IF Truthy(err) THEN Thrown(err, "ceiling")
    ELSE Thrown(NoOutcomeError, "ceiling")

\* the outcome once the ceiling is reached
CeilingOutcome(resp, err) ==
    IF Truthy(err) THEN Thrown(err, "ceiling")
    ELSE IF Truthy(resp) THEN Returned(resp)
    ELSE Thrown(NoOutcomeError, "ceiling")

MaxRetriesCheck ==
    /\ pc = "checkMax"
    /\ IF CeilingReached(retryCount, EffectiveMaxRetries)
       THEN /\ Finish(CeilingOutcome(response, responseError))
            /\ UNCHANGED strategyIndex
       ELSE /\ pc' = "strategies"
            /\ strategyIndex' = 1
            /\ UNCHANGED result
    /\ UNCHANGED <<config, coordinator, signal, url, retryCount, response, responseError,
                   transportCalls, delayCount, callsWhenAborted, evaluated, probe>>

\* strategy.retry({retryCount, response, responseError}): what it may give
StrategyRetry(strategy, count, resp, requestUrl) ==
    CASE strategy.kind = "any" ->
            {SkipVerdict, ThrowVerdict(StrategyError)}
                \cup {WaitVerdict(d) : d \in WaitDurations}
                \cup {RedirectVerdict(u) : u \in RedirectTargets}
      [] strategy.kind = "alwaysWait" -> {WaitVerdict(d) : d \in WaitDurations}
      [] strategy.kind = "roundRobin" ->
            {RoundRobinRetry(strategy.openAiHosts, resp, count, requestUrl, now) :
                now \in ClockReadings}

\* (mutant) a wait of 0 ms is taken for no wait at all
HasRetryAfterTruthy(modifiers) == Truthy(modifiers.retryAfterInMs)

\* if (retryAfterInMs || retryAfterInMs === 0)
HasRetryAfter(modifiers) ==
    Truthy(modifiers.retryAfterInMs) \/ IsZero(modifiers.retryAfterInMs)

\* what one pass of strategiesLoop does with the modifiers it got
VerdictOf(modifiers) ==
    IF modifiers.tag = "raises" THEN "raise"
    ELSE IF modifiers.skipStrategy THEN "skip"
    ELSE IF Truthy(modifiers.errorToThrow) THEN "throw"
    ELSE IF HasRetryAfter(modifiers) THEN "wait"
    ELSE IF Truthy(modifiers.redirectTo) THEN "redirect"
    ELSE "next"

\* (mutant) a redirect rewrites the URL and the loop goes on to the next strategy
ApplyModifiersRedirectFallsThrough(modifiers) ==
    LET verdict == VerdictOf(modifiers) IN
    CASE verdict = "raise" ->
            /\ Finish(Thrown(modifiers.error, "strategy"))
            /\ UNCHANGED <<strategyIndex, url, delayCount>>
      [] verdict = "throw" ->
            /\ Finish(Thrown(modifiers.errorToThrow, "strategy"))
            /\ UNCHANGED <<strategyIndex, url, delayCount>>
      [] verdict = "wait" ->
            /\ pc' = "delaying"
            /\ delayCount' = delayCount + 1
            /\ UNCHANGED <<strategyIndex, url, result>>
      [] verdict = "redirect" ->
            /\ url' = modifiers.redirectTo
            /\ strategyIndex' = strategyIndex + 1
            /\ UNCHANGED <<pc, delayCount, result>>
      [] OTHER ->
            /\ strategyIndex' = strategyIndex + 1
            /\ UNCHANGED <<pc, url, delayCount, result>>

\* (mutant) a wait sends the next attempt to the original URL again
ApplyModifiersWaitResetsUrl(modifiers) ==
    LET verdict == VerdictOf(modifiers) IN
    CASE verdict = "raise" ->
            /\ Finish(Thrown(modifiers.error, "strategy"))
            /\ UNCHANGED <<strategyIndex, url, delayCount>>
      [] verdict = "throw" ->
            /\ Finish(Thrown(modifiers.errorToThrow, "strategy"))
            /\ UNCHANGED <<strategyIndex, url, delayCount>>
      [] verdict = "wait" ->
            /\ pc' = "delaying"
            /\ delayCount' = delayCount + 1
            /\ url' = OriginalUrl
            /\ UNCHANGED <<strategyIndex, result>>
      [] verdict = "redirect" ->
            /\ url' = modifiers.redirectTo
            /\ pc' = "attempt"
            /\ UNCHANGED <<strategyIndex, delayCount, result>>
      [] OTHER ->
            /\ strategyIndex' = strategyIndex + 1
            /\ UNCHANGED <<pc, url, delayCount, result>>

\* the body of strategiesLoop after strategy.retry() has answered
ApplyModifiers(modifiers) ==
    LET verdict == VerdictOf(modifiers) IN
    CASE verdict = "raise" ->
            /\ Finish(Thrown(modifiers.error, "strategy"))
            /\ UNCHANGED <<strategyIndex, url, delayCount>>
      [] verdict = "throw" ->
            /\ Finish(Thrown(modifiers.errorToThrow, "strategy"))
            /\ UNCHANGED <<strategyIndex, url, delayCount>>
      [] verdict = "wait" ->
            /\ pc' = "delaying"
            /\ delayCount' = delayCount + 1
            /\ UNCHANGED <<strategyIndex, url, result>>
      [] verdict = "redirect" ->
            /\ url' = modifiers.redirectTo
            /\ pc' = "attempt"
            /\ UNCHANGED <<strategyIndex, delayCount, result>>
      [] OTHER ->
            /\ strategyIndex' = strategyIndex + 1
            /\ UNCHANGED <<pc, url, delayCount, result>>

\* one pass of strategiesLoop
EvaluateStrategy ==
    /\ pc = "strategies"
    /\ strategyIndex <= Len(strategies)
    /\ \E modifiers \in StrategyRetry(strategies[strategyIndex], retryCount, response, url) :
         /\ evaluated' = Append(evaluated,
                                [index |-> strategyIndex,
                                 context |-> [retryCount |-> retryCount,
                                              response |-> response,
                                              responseError |-> responseError],
                                 modifiers |-> modifiers])
         /\ ApplyModifiers(modifiers)
    /\ UNCHANGED <<config, coordinator, signal, retryCount, response, responseError,
                   transportCalls, callsWhenAborted, probe>>

\* (mutant) after strategiesLoop a response is preferred to the error carrying it
UnhandledOutcomeResponseFirst(resp, err) ==
    IF Truthy(resp) THEN Returned(resp)
    ELSE IF Truthy(err) THEN Thrown(err, "unhandled")
    ELSE Pending

\* after strategiesLoop: no strategy took the attempt
UnhandledOutcome(resp, err) ==
    IF Truthy(err) THEN Thrown(err, "unhandled")
    ELSE IF Truthy(resp) THEN Returned(resp)
    ELSE Pending

NoStrategyApplies ==
    /\ pc = "strategies"
    /\ strategyIndex > Len(strategies)
    /\ LET outcome == UnhandledOutcome(response, responseError) IN
       IF outcome = Pending
       THEN /\ pc' = "attempt"
            /\ UNCHANGED result
       ELSE Finish(outcome)
    /\ UNCHANGED <<config, coordinator, signal, url, retryCount, response, responseError,
                   strategyIndex, transportCalls, delayCount, callsWhenAborted,
                   evaluated, probe>>

\* await delay(retryAfterInMs, {abortSignal}): the timer fires
DelayResolves ==
    /\ pc = "delaying"
    /\ ~Aborted
    /\ pc' = "attempt"
    /\ UNCHANGED <<config, coordinator, signal, url, retryCount, response, responseError,
                   strategyIndex, result, transportCalls, delayCount,
                   callsWhenAborted, evaluated, probe>>

\* (mutant) delay() is called without the abort signal
DelayIgnoresSignal == FALSE

\* whether delay() was handed the request's abort signal
DelayObservesSignal == TRUE

\* await delay(retryAfterInMs, {abortSignal}): the signal fires first
DelayRejects ==
    /\ pc = "delaying"
    /\ Aborted
    /\ IF DelayObservesSignal
       THEN Finish(Thrown(AbortError, "delay"))
       ELSE /\ pc' = "attempt"
            /\ UNCHANGED result
    /\ UNCHANGED <<config, coordinator, signal, url, retryCount, response, responseError,
                   strategyIndex, transportCalls, delayCount, callsWhenAborted,
                   evaluated, probe>>

\* the caller aborts; sendRequest can be overtaken only where it awaits
AbortSignalFires ==
    /\ signal = "idle"
    /\ pc \in {"inFlight", "delaying"}
    /\ signal' = "aborted"
    /\ callsWhenAborted' = transportCalls
    /\ UNCHANGED <<config, coordinator, url, retryCount, response, responseError, pc,
                   strategyIndex, result, transportCalls, delayCount, evaluated, probe>>

Next ==
    \/ BeginAttempt
    \/ TransportResponds
    \/ TransportThrows
    \/ AbortCheck
    \/ MaxRetriesCheck
    \/ EvaluateStrategy
    \/ NoStrategyApplies
    \/ DelayResolves
    \/ DelayRejects
    \/ AbortSignalFires

Spec == Init /\ [][Next]_vars

\* every step of sendRequest and of its collaborators; the caller's abort is
\* the environment's
PolicyStep ==
    \/ BeginAttempt
    \/ TransportResponds
    \/ TransportThrows
    \/ AbortCheck
    \/ MaxRetriesCheck
    \/ EvaluateStrategy
    \/ NoStrategyApplies
    \/ DelayResolves
    \/ DelayRejects

\* each Transport call and each delay completes, and the event loop runs
\* every continuation that is ready
FairSpec == Init /\ [][Next]_vars /\ WF_vars(PolicyStep)

(* --------------- one retry() call of the strategy on its own ---------- *)
HeaderValues ==
    {Undefined, EmptyStr, Decimal(0), Decimal(2), Decimal(500), InfinityStr, TextStr,
     HttpDate(100)}

ProbeStatuses == {200, 429, 503}

ProbeResponses ==
    {Undefined} \cup
    {Response(status, headers, 0) :
        status \in ProbeStatuses, headers \in [HeaderNames -> HeaderValues]}

\* the retry counts a strategy is called with: those below a ceiling
ProbeRetryCounts == 0..(Max(MaxRetriesBound, DEFAULT_RETRY_POLICY_COUNT) - 1)

ProbeUrls == {OriginalUrl, Url("undefined", OriginalPath, OriginalSearch)}

ProbeInit ==
    /\ strategies = <<>>
    /\ maxRetries = Undefined
    /\ signal = "none"
    /\ url \in ProbeUrls
    /\ retryCount \in ProbeRetryCounts
    /\ response \in ProbeResponses
    /\ responseError = Undefined
    /\ pc = "probe"
    /\ strategyIndex = 0
    /\ result = Pending
    /\ transportCalls = 0
    /\ delayCount = 0
    /\ callsWhenAborted = -1
    /\ evaluated = <<>>
    /\ probe \in {[tag |-> "input", openAiHosts |-> hosts, now |-> now] :
                      hosts \in HostLists, now \in ClockReadings}
    /\ NoCoordinator

\* roundRobinThrottlingStrategy(openAiHosts).retry({response, retryCount}),
\* with what its helpers give for the same response
ProbeStrategy ==
    /\ pc = "probe"
    /\ pc' = "probed"
    /\ probe' = [tag |-> "output",
                 openAiHosts |-> probe.openAiHosts,
                 now |-> probe.now,
                 retryAfterInMs |-> GetRetryAfterInMs(response, probe.now),
                 isThrottling |-> IsThrottlingRetryResponse(response, probe.now),
                 modifiers |-> RoundRobinRetry(probe.openAiHosts, response, retryCount,
                                               url, probe.now)]
    /\ UNCHANGED <<config, coordinator, signal, url, retryCount, response, responseError,
                   strategyIndex, result, transportCalls, delayCount,
                   callsWhenAborted, evaluated>>

ProbeNext == ProbeStrategy

ProbeSpec == ProbeInit /\ [][ProbeNext]_vars

(* ------------- cookbook: OpenAIEndpointCoordinator -------------------- *)
OpenAiBase == "https://api.openai.com"

\* new OpenAIEndpointCoordinator(["https://api.openai.com", endpoint]), and
\* lists of other lengths
CoordinatorEndpointLists ==
    {<<Endpoint(OpenAiBase)>> \o SubSeq(AllHosts, 1, n) : n \in 0..MaxHosts}

\* the URLs of the requests the client builds
CoordinatorUrls ==
    {Url(AllHosts[i].base, path, OriginalSearch) :
        i \in 1..MaxHosts, path \in {OriginalPath, <<"openai", "completions">>}}

\* the 429 mockRetry builds itself
MockedResponse == Response(429, NoHeaders, -1)

\* one sendRequest call of a policy: whether it called next(request), and
\* request.url before and after
PolicyCall(policy, forwarded, urlBefore, urlAfter) ==
    [policy |-> policy, forwarded |-> forwarded,
     urlBefore |-> urlBefore, urlAfter |-> urlAfter]

CoordinatorInit ==
    /\ strategies = <<>>
    /\ maxRetries = Undefined
    /\ signal = "none"
    /\ url \in CoordinatorUrls
    /\ retryCount = -1
    /\ response = Undefined
    /\ responseError = Undefined
    /\ pc = "perCall"
    /\ strategyIndex = 0
    /\ result = Pending
    /\ transportCalls = 0
    /\ delayCount = 0
    /\ callsWhenAborted = -1
    /\ evaluated = <<>>
    /\ probe = NoProbe
    /\ currentRetries = 0
    /\ openAIEndpoints \in CoordinatorEndpointLists
    /\ policyLog = <<>>

\* client.getChatCompletions(...): the next request enters the pipeline
CreateRequest ==
    /\ pc = "idle"
    /\ url' \in CoordinatorUrls
    /\ response' = Undefined
    /\ pc' = "perCall"
    /\ UNCHANGED <<config, coordinator, signal, retryCount, responseError,
                   strategyIndex, result, transportCalls, delayCount,
                   callsWhenAborted, evaluated, probe>>

\* (mutant) mockRetry passes the request on only below zero
MockRetryForwardsBelowZero(retries) == retries < 0

\* if (this.currentRetries <= 0) return next(request)
MockRetryForwards(retries) == retries <= 0

\* mockRetry().sendRequest(request, next), the perCall policy
MockRetrySendRequest ==
    /\ pc = "perCall"
    /\ Len(policyLog) < MaxPolicyCalls
    /\ IF MockRetryForwards(currentRetries)
       THEN /\ pc' = "perRetry"
            /\ policyLog' = Append(policyLog, PolicyCall("mockRetry", TRUE, url, url))
            /\ UNCHANGED <<currentRetries, response>>
       ELSE /\ currentRetries' = currentRetries + 1
            /\ response' = MockedResponse
            /\ pc' = "idle"
            /\ policyLog' = Append(policyLog, PolicyCall("mockRetry", FALSE, url, url))
    /\ UNCHANGED <<config, openAIEndpoints, signal, url, retryCount, responseError,
                   strategyIndex, result, transportCalls, delayCount,
                   callsWhenAborted, evaluated, probe>>

\* if (this.currentRetries === 0) return next(request)
SwitchEndpointForwards(retries) == retries = 0

\* this.openAIEndpoints[...] + currentUrl.pathname + currentUrl.search
SwitchedUrl(endpoints, retries, requestUrl) ==
    ConcatUrl(HostAt(endpoints, BackupIndex(endpoints, retries)),
              requestUrl.path, requestUrl.search)

\* switchEndpoint().sendRequest(request, next), the perRetry policy
SwitchEndpointSendRequest ==
    /\ pc = "perRetry"
    /\ Len(policyLog) < MaxPolicyCalls
    /\ IF SwitchEndpointForwards(currentRetries)
       THEN /\ pc' = "sent"
            /\ transportCalls' = transportCalls + 1
            /\ policyLog' = Append(policyLog, PolicyCall("switchEndpoint", TRUE, url, url))
            /\ UNCHANGED <<url, result>>
       ELSE IF ~UrlIsValid(url)
       THEN /\ Finish(Thrown(TypeError, "switchEndpoint"))
            /\ policyLog' = Append(policyLog, PolicyCall("switchEndpoint", FALSE, url, url))
            /\ UNCHANGED <<url, transportCalls>>
       ELSE /\ url' = SwitchedUrl(openAIEndpoints, currentRetries, url)
            /\ pc' = "sent"
            /\ transportCalls' = transportCalls + 1
            /\ policyLog' = Append(policyLog, PolicyCall("switchEndpoint", TRUE, url, url'))
            /\ UNCHANGED result
    /\ UNCHANGED <<config, currentRetries, openAIEndpoints, signal, retryCount,
                   response, responseError, strategyIndex, delayCount,
                   callsWhenAborted, evaluated, probe>>

\* the rest of the pipeline answers: the client's own retry policy runs the
\* perRetry policies again after a 429 or 503, or the response goes back to
\* the caller
PipelineResponds ==
    /\ pc = "sent"
    /\ \E r \in TransportResponses(transportCalls) :
         /\ response' = r
         /\ \/ pc' = "idle"
            \/ r.status \in ThrottlingStatusCodes /\ pc' = "perRetry"
    /\ UNCHANGED <<config, coordinator, signal, url, retryCount, responseError,
                   strategyIndex, result, transportCalls, delayCount,
                   callsWhenAborted, evaluated, probe>>

CoordinatorNext ==
    \/ CreateRequest
    \/ MockRetrySendRequest
    \/ SwitchEndpointSendRequest
    \/ PipelineResponds

CoordinatorSpec == CoordinatorInit /\ [][CoordinatorNext]_vars

(* ============================ properties ============================== *)
Done == pc = "done"
Ceiling == EffectiveMaxRetries
IsSkip(m) == m.tag = "modifiers" /\ m.skipStrategy
IsThrow(m) == m.tag = "modifiers" /\ ~m.skipStrategy /\ m.errorToThrow # Undefined
IsWait(m) == m.tag = "modifiers" /\ ~m.skipStrategy /\ m.retryAfterInMs # Undefined
IsRedirect(m) == m.tag = "modifiers" /\ ~m.skipStrategy /\ m.redirectTo # Undefined
LastEvaluated == evaluated[Len(evaluated)]
AlwaysWaitConfigured == strategies # <<>> /\ strategies[1] = AlwaysWaitStrategy
ThrownBy(by) == Done /\ result.kind = "thrown" /\ result.by = by
ReturnedResponse == Done /\ result.kind = "returned"

\* C1 (as amended): with maxRetries = N and a first strategy that answers
\* Wait(d) after every attempt (d = 0 included), a run that is neither
\* cancelled nor cut short by a Transport failure that is no RestError makes
\* N+1 attempts, the first of them answered by the policy's own 429 without
\* Transport, so exactly N Transport invocations; a returned Response is the
\* one of the last attempt.
C1_WaitMakesNTransportCalls ==
    (AlwaysWaitConfigured /\ Done) =>
        /\ result.kind = "returned" =>
              /\ retryCount = Ceiling
              /\ transportCalls = Ceiling
              /\ delayCount = Ceiling
              /\ result.value = response
              /\ response.attempt = Ceiling
        /\ result.kind = "thrown" =>
              /\ result.by \in {"abortCheck", "delay", "transport", "ceiling"}
              /\ result.by = "ceiling" => (retryCount = Ceiling /\ transportCalls = Ceiling)

\* C1 as stated: N+1 Transport invocations before the last Response is returned
C1_Original_NPlusOneTransportCalls ==
    (AlwaysWaitConfigured /\ ReturnedResponse) => transportCalls = Ceiling + 1

C1_Witness ==
    /\ AlwaysWaitConfigured
    /\ ReturnedResponse
    /\ Ceiling = DEFAULT_RETRY_POLICY_COUNT
    /\ transportCalls = DEFAULT_RETRY_POLICY_COUNT
    /\ delayCount = DEFAULT_RETRY_POLICY_COUNT

\* C2 (as amended): after every attempt that ends with a Response or a
\* RestError, a set cancellation signal ends the request with an AbortError
\* before the ceiling check and before any strategy: no ceiling check and no
\* strategy runs, and no Response is returned, with the signal set. A
\* Transport failure that is no RestError is rethrown at once, before the
\* signal is looked at.
C2_AbortBeforeCeilingAndStrategies ==
    /\ pc \in {"checkMax", "strategies"} => ~Aborted
    /\ ReturnedResponse => ~Aborted
    /\ (Aborted /\ evaluated # <<>>) => (pc = "delaying" \/ ThrownBy("delay"))
    /\ (Done /\ Aborted) =>
          /\ result.kind = "thrown"
          /\ result.by \in {"abortCheck", "delay", "transport"}
          /\ result.by # "transport" => result.value = AbortError
          /\ result.by = "transport" => ~IsRetryableError(result.value)
    /\ ThrownBy("ceiling") => ~Aborted
    /\ ThrownBy("unhandled") => ~Aborted

\* C2 as stated: whatever the attempt's outcome, a set signal ends the
\* request with a cancellation error
C2_Original_AlwaysAbortError ==
    (Done /\ Aborted) => (result.kind = "thrown" /\ result.value = AbortError)

C2_Witness ==
    /\ ThrownBy("abortCheck")
    /\ Truthy(responseError)
    /\ retryCount = Ceiling
    /\ retryCount > 0
    /\ strategies # <<>>

\* C3: below the ceiling the strategies are asked in the order given, each
\* one only after all before it answered Skip; the first answer that is not
\* Skip is the one applied (Throw ends the request with its error, Wait
\* starts the delay, Redirect rewrites the URL and starts the next attempt)
\* and no later strategy is asked in that round.
C3_FirstNonSkipWins ==
    /\ \A i \in 1..Len(evaluated) :
          /\ evaluated[i].index = i
          /\ i < Len(evaluated) => IsSkip(evaluated[i].modifiers)
    /\ Len(evaluated) <= Len(strategies)
    /\ pc = "strategies" =>
          /\ strategyIndex = Len(evaluated) + 1
          /\ \A i \in 1..Len(evaluated) : IsSkip(evaluated[i].modifiers)
    /\ evaluated # <<>> =>
          /\ IsThrow(LastEvaluated.modifiers) =>
                /\ ThrownBy("strategy")
                /\ result.value = LastEvaluated.modifiers.errorToThrow
          /\ IsWait(LastEvaluated.modifiers) =>
                /\ pc \in {"delaying", "attempt"} \/ ThrownBy("delay")
                /\ delayCount >= 1
          /\ IsRedirect(LastEvaluated.modifiers) =>
                /\ pc = "attempt"
                /\ url = LastEvaluated.modifiers.redirectTo
    /\ pc = "delaying" => (evaluated # <<>> /\ IsWait(LastEvaluated.modifiers))
    /\ ThrownBy("strategy") => evaluated # <<>>

C3_Witness ==
    /\ Len(strategies) = 2
    /\ Len(evaluated) = 1
    /\ IsRedirect(evaluated[1].modifiers)
    /\ pc = "attempt"
    /\ url = evaluated[1].modifiers.redirectTo

\* C4: an attempt that completes with retryCount at the ceiling (maxRetries,
\* 3 by default) and no cancellation ends the request without asking any
\* strategy: the last error is thrown if there is one, also when it carries
\* a Response; otherwise the last Response is returned.
C4_CeilingThrowsErrorFirst ==
    /\ pc \in {"strategies", "delaying"} => retryCount < Ceiling
    /\ (Done /\ retryCount = Ceiling /\ ~Aborted) =>
          /\ evaluated = <<>>
          /\ delayCount <= Ceiling
          /\ IF result.kind = "thrown" /\ result.by = "transport"
             THEN ~IsRetryableError(result.value)
             ELSE IF Truthy(responseError)
             THEN result = Thrown(responseError, "ceiling")
             ELSE Truthy(response) /\ result = Returned(response)

C4_Witness ==
    /\ ThrownBy("ceiling")
    /\ Ceiling = DEFAULT_RETRY_POLICY_COUNT
    /\ maxRetries = Undefined
    /\ Truthy(result.value.response)
    /\ response = result.value.response
    /\ strategies # <<>>

\* C5 (as amended): when the maximum number of retries is reached the last
\* TransportError is re-raised whenever one is present, whether or not it
\* carries a Response; the last Response is returned only when no error is
\* present.
C5_CeilingReturnsOnlyWithoutError ==
    (Done /\ retryCount = Ceiling /\ evaluated = <<>>
          /\ ~(result.kind = "thrown" /\ result.by \in {"abortCheck", "transport"})) =>
        /\ result.kind = "returned" <=> ~Truthy(responseError)
        /\ result.kind = "returned" => result.value = response
        /\ result.kind = "thrown" => (result.value = responseError /\ result.by = "ceiling")

\* C5 as stated: the last Response is returned if one is present, the error
\* re-raised only if no Response is present
C5_Original_ResponseFirst ==
    (Done /\ retryCount = Ceiling /\ evaluated = <<>>
          /\ ~(result.kind = "thrown" /\ result.by \in {"abortCheck", "transport"})) =>
        IF Truthy(response) THEN result = Returned(response)
        ELSE result.kind = "thrown" /\ result.value = responseError

C5_Witness ==
    /\ ThrownBy("ceiling")
    /\ Truthy(response)
    /\ result.value = responseError
    /\ response.status = 200

\* C6: below the ceiling, when every configured strategy answers Skip (an
\* empty list included), the request ends on that attempt with no further
\* Transport call: the attempt's error is thrown if there is one, otherwise
\* the attempt's Response is returned.
C6_AllSkipEndsTheRequest ==
    [][ (pc = "strategies" /\ strategyIndex > Len(strategies)) =>
            /\ retryCount < Ceiling
            /\ Len(evaluated) = Len(strategies)
            /\ \A i \in 1..Len(evaluated) : IsSkip(evaluated[i].modifiers)
            /\ pc' = "done"
            /\ transportCalls' = transportCalls
            /\ delayCount' = delayCount
            /\ result' = IF Truthy(responseError)
                         THEN Thrown(responseError, "unhandled")
                         ELSE Returned(response)
            /\ Truthy(responseError) \/ (Truthy(response) /\ response.attempt = retryCount)
      ]_vars

C6_Witness ==
    /\ ThrownBy("unhandled")
    /\ Len(strategies) = 2
    /\ Len(evaluated) = 2
    /\ Truthy(response)
    /\ retryCount < Ceiling

\* C7 (as amended): when a strategy answers Throw(e) on the first attempt,
\* Transport has not been invoked at all (the first attempt is the policy's
\* own 429), e reaches the caller unchanged, no delay has been started, the
\* request URL is untouched and no later strategy is asked.
C7_ThrowOnFirstAttempt ==
    (ThrownBy("strategy") /\ retryCount = 0 /\ evaluated # <<>>
          /\ IsThrow(LastEvaluated.modifiers)) =>
        /\ transportCalls = 0
        /\ result.value = LastEvaluated.modifiers.errorToThrow
        /\ delayCount = 0
        /\ url = OriginalUrl
        /\ \A i \in 1..(Len(evaluated) - 1) : IsSkip(evaluated[i].modifiers)

\* C7 as stated: Transport is invoked exactly once
C7_Original_OneTransportCall ==
    (ThrownBy("strategy") /\ retryCount = 0 /\ evaluated # <<>>
          /\ IsThrow(LastEvaluated.modifiers)) =>
        transportCalls = 1

C7_Witness ==
    /\ ThrownBy("strategy")
    /\ retryCount = 0
    /\ Len(strategies) = 2
    /\ Len(evaluated) = 1
    /\ result.value = StrategyError

\* the signal fired while the loop was running, after the first attempt
FiredMidLoop == Aborted /\ callsWhenAborted >= 0 /\ (delayCount > 0 \/ transportCalls > 0)

\* C8 (as amended): when the signal fires during the delay between two
\* attempts or while the next attempt is in flight, no Transport call is
\* started after it has fired and the request ends Failed: with an
\* AbortError, unless the attempt in flight fails with an error that is no
\* RestError, which is then the error thrown.
C8_NoTransportCallAfterAbort ==
    /\ Aborted => transportCalls = callsWhenAborted
    /\ (Aborted /\ pc = "attempt") => retryCount = -1
    /\ (Done /\ FiredMidLoop) =>
          /\ result.kind = "thrown"
          /\ result.value # AbortError =>
                (result.by = "transport" /\ ~IsRetryableError(result.value))

\* C8 as stated: the loop always ends with a cancellation error
C8_Original_AlwaysCancellationError ==
    (Done /\ FiredMidLoop) => (result.kind = "thrown" /\ result.value = AbortError)

C8_Witness ==
    /\ ThrownBy("delay")
    /\ FiredMidLoop
    /\ retryCount = 1
    /\ transportCalls = 1
    /\ callsWhenAborted = 1

\* C9: every request ends, in Success (a Response is returned) or in Failed
\* (an error is thrown), provided each Transport call and each delay
\* completes; the loop never makes more than maxRetries+1 attempts, and no
\* end is reached with neither a Response nor an error.
C9_AlwaysTerminates ==
    /\ <>Done
    /\ [](retryCount <= Ceiling)
    /\ [](Done => \/ result.kind = "returned" /\ result.value.tag = "response"
                  \/ result.kind = "thrown")
    /\ [](~Done => result = Pending)

C9_Witness ==
    /\ ReturnedResponse
    /\ retryCount = Ceiling
    /\ Ceiling = DEFAULT_RETRY_POLICY_COUNT
    /\ delayCount > 0
    /\ url # OriginalUrl

Probed == pc = "probed"

\* a header holds a number that is not infinite, or (Retry-After only) a date
HeaderYieldsFiniteWait(resp, header) ==
    LET value == HeaderGet(resp, header) IN
    \/ value.tag = "string" /\ value.kind = "decimal"
    \/ header = RetryAfterHeader /\ value.tag = "string" /\ value.kind = "date"

\* C10: isThrottlingRetryResponse(response) is true exactly when the
\* response exists, its status is 429 or 503 and at least one of the three
\* wait headers yields a valid finite value, 0 counting as valid; for any
\* other status it is false whatever the headers hold, and the strategy
\* answers Skip.
C10_ThrottlingExactlyWhenAHeaderIsFinite ==
    Probed =>
        /\ probe.isThrottling <=>
              /\ response # Undefined
              /\ response.status \in ThrottlingStatusCodes
              /\ \E header \in HeaderNames : HeaderYieldsFiniteWait(response, header)
        /\ (response # Undefined /\ response.status \notin ThrottlingStatusCodes) =>
              (~probe.isThrottling /\ probe.modifiers = SkipVerdict)

\* a header holds something the wait is read from: a number (0 and Infinity
\* included), or (Retry-After only) a date
HeaderYieldsValue(resp, header) ==
    LET value == HeaderGet(resp, header) IN
    \/ value.tag = "string" /\ value.kind \in {"decimal", "infinity"}
    \/ header = RetryAfterHeader /\ value.tag = "string" /\ value.kind = "date"

ThrottlingStatus == Probed /\ response # Undefined /\ response.status \in ThrottlingStatusCodes

\* C11 (as stated): a 429 or 503 response on which none of the three wait
\* headers yields a valid value is still reported as throttled, while the
\* resolved wait is absent.
C11_Original_ThrottledWithoutAnyHeader ==
    (ThrottlingStatus /\ \A header \in HeaderNames : ~HeaderYieldsValue(response, header))
        => (probe.isThrottling /\ probe.retryAfterInMs = Undefined)

\* C11 (as amended): a 429 or 503 response on which none of the three wait
\* headers yields a valid value is not reported as throttled, its resolved
\* wait is absent, and the strategy answers Skip.
C11_NotThrottledWithoutAnyHeader ==
    (ThrottlingStatus /\ \A header \in HeaderNames : ~HeaderYieldsValue(response, header))
        => /\ ~probe.isThrottling
           /\ probe.retryAfterInMs = Undefined
           /\ probe.modifiers = SkipVerdict

C11_Witness ==
    /\ ThrottlingStatus
    /\ response.status = 503
    /\ HeaderGet(response, "retry-after-ms") = TextStr
    /\ HeaderGet(response, "x-ms-retry-after-ms") = HttpDate(100)
    /\ HeaderGet(response, RetryAfterHeader) = Undefined
    /\ ~probe.isThrottling
    /\ probe.modifiers = SkipVerdict

HeaderPrecedence == <<"retry-after-ms", "x-ms-retry-after-ms", "Retry-After">>

HoldsNumber(resp, header) ==
    HeaderGet(resp, header).tag = "string"
        /\ HeaderGet(resp, header).kind \in {"decimal", "infinity"}

\* the wait a header's number stands for: milliseconds as they are, the
\* seconds of Retry-After times 1000
WaitOfNumber(resp, header) ==
    LET value == HeaderGet(resp, header) IN
    IF value.kind = "infinity" THEN PosInfinity
    ELSE IF header = "Retry-After" THEN Num(value.v * 1000) ELSE Num(value.v)

\* C12: for a response with status 429 or 503 the resolved wait comes from
\* the first of retry-after-ms, x-ms-retry-after-ms, Retry-After that holds a
\* valid value: milliseconds unchanged, the seconds of a numeric Retry-After
\* times 1000; a later header is consulted only when every earlier one is
\* missing or invalid, and a Retry-After date only when no header holds a
\* number.
C12_FirstValidHeaderWins ==
    ThrottlingStatus =>
        /\ \A i \in 1..Len(HeaderPrecedence) :
              (/\ HoldsNumber(response, HeaderPrecedence[i])
               /\ \A j \in 1..(i - 1) : ~HoldsNumber(response, HeaderPrecedence[j]))
                  => probe.retryAfterInMs = WaitOfNumber(response, HeaderPrecedence[i])
        /\ (\A i \in 1..Len(HeaderPrecedence) : ~HoldsNumber(response, HeaderPrecedence[i]))
              => probe.retryAfterInMs =
                    (IF HeaderGet(response, "Retry-After").tag = "string"
                        /\ HeaderGet(response, "Retry-After").kind = "date"
                     THEN Num(Max(0, HeaderGet(response, "Retry-After").v - probe.now))
                     ELSE Undefined)

C12_Witness ==
    /\ ThrottlingStatus
    /\ HeaderGet(response, "retry-after-ms") = Decimal(500)
    /\ HeaderGet(response, "x-ms-retry-after-ms") = TextStr
    /\ HeaderGet(response, "Retry-After") = Decimal(2)
    /\ probe.retryAfterInMs = Num(500)

\* C13: for the endpoint list [A, B] and a throttled response, the rotation
\* at attempt count 1 answers a redirect to B's base followed by the
\* original path and query string.
C13_SecondHostAtAttemptOne ==
    (/\ Probed
     /\ Len(probe.openAiHosts) = 2
     /\ retryCount = 1
     /\ probe.isThrottling
     /\ UrlIsValid(url))
        => probe.modifiers =
              RedirectVerdict(Url(probe.openAiHosts[2].base, url.path, url.search))

OnlyRoundRobin ==
    /\ strategies # <<>>
    /\ \A i \in 1..Len(strategies) :
          strategies[i].kind = "roundRobin" /\ Len(strategies[i].openAiHosts) >= 2

ConfiguredBases(openAiHosts) == {openAiHosts[i].base : i \in 1..Len(openAiHosts)}

\* C14: with only the round-robin throttling strategy configured (two or
\* more endpoints), whatever attempts and redirects the policy has made, the
\* request URL's path and query string are those of the original request: a
\* redirect changes the base (scheme and host) and nothing else.
C14_PathAndQueryPreserved ==
    OnlyRoundRobin =>
        /\ Pathname(url) = OriginalPath
        /\ url.search = OriginalSearch
        /\ \E openAiHosts \in {strategies[i].openAiHosts : i \in 1..Len(strategies)} :
              url.base \in ConfiguredBases(openAiHosts) \cup {OriginalBase}

\* C20: whenever the round-robin strategy answers a redirect during a run of
\* the policy, for a list of two or more endpoints and every retry count
\* below the ceiling, the index (retryCount mod len) + 1 lies within the
\* list, so the base of the rewritten URL is one of the configured endpoints.
C20_RedirectBaseIsConfigured ==
    \A k \in 1..Len(evaluated) :
        LET strategy == strategies[evaluated[k].index] IN
        (/\ strategy.kind = "roundRobin"
         /\ Len(strategy.openAiHosts) >= 2
         /\ IsRedirect(evaluated[k].modifiers))
            => /\ BackupIndex(strategy.openAiHosts, evaluated[k].context.retryCount)
                    \in 0..(Len(strategy.openAiHosts) - 1)
               /\ evaluated[k].modifiers.redirectTo.base
                    \in ConfiguredBases(strategy.openAiHosts)

SingleRoundRobin == Len(strategies) = 1 /\ strategies[1].kind = "roundRobin"

\* C15: with mockRetryPolicy around roundRobinThrottlingStrategy([E0, E1])
\* and a ceiling of at least 1, the first attempt yields the synthetic 429
\* without a Transport call, and the second attempt, the first real
\* Transport call, is sent to E1 with the original path and query; only a
\* cancellation keeps the run from reaching it.
C15_FirstRealCallGoesToSecondHost ==
    (SingleRoundRobin /\ Len(strategies[1].openAiHosts) >= 2 /\ Ceiling >= 1) =>
        /\ (retryCount = 0) =>
              /\ response = SyntheticResponse(0)
              /\ responseError = Undefined
              /\ transportCalls = 0
              /\ Done => ThrownBy("abortCheck")
        /\ (retryCount = 1 /\ pc = "inFlight") =>
              /\ transportCalls = 1
              /\ url = Url(strategies[1].openAiHosts[2].base, OriginalPath, OriginalSearch)

C15_Witness ==
    /\ SingleRoundRobin
    /\ Len(strategies[1].openAiHosts) = 2
    /\ Ceiling >= 1
    /\ retryCount = 1
    /\ pc = "inFlight"
    /\ transportCalls = 1
    /\ url.base = "https://backup1.example"

\* C16 (as stated): every failure raised by Transport is caught and recorded
\* as the attempt's outcome; none reaches the caller directly from the send
\* step.
C16_Original_NoFailureLeavesTheSendStep == ~ThrownBy("transport")

\* C16 (as amended): every RestError raised by Transport is caught, recorded
\* as the attempt's outcome together with the response it carries, and
\* passed to the strategies as context (subject to the cancellation and
\* ceiling checks); a failure that is not a RestError reaches the caller
\* directly from the send step.
C16_OnlyRestErrorsAreKept ==
    /\ ThrownBy("transport") =>
          ~(result.value.tag = "error" /\ result.value.name = "RestError")
    /\ Truthy(responseError) =>
          /\ responseError.name = "RestError"
          /\ responseError.attempt = retryCount
          /\ response = responseError.response
    /\ \A k \in 1..Len(evaluated) :
          /\ evaluated[k].context.responseError = responseError
          /\ evaluated[k].context.response = response
          /\ evaluated[k].context.retryCount = retryCount

C16_Witness ==
    /\ Truthy(responseError)
    /\ ~Truthy(response)
    /\ evaluated # <<>>
    /\ evaluated[1].context.responseError = RestError(Undefined, retryCount)

WaitHeaderIsFinite(resp) ==
    \E header \in HeaderNames : HeaderYieldsFiniteWait(resp, header)

C18_UrlChangesOnlyOnRedirect ==
    [][/\ (url' # url) =>
              /\ pc = "strategies"
              /\ pc' = "attempt"
              /\ Len(evaluated') = Len(evaluated) + 1
              /\ IsRedirect(evaluated'[Len(evaluated')].modifiers)
              /\ url' = evaluated'[Len(evaluated')].modifiers.redirectTo
       /\ (pc' = "delaying" \/ pc = "delaying") => url' = url
       /\ (Len(evaluated') = Len(evaluated) + 1
              /\ IsWait(evaluated'[Len(evaluated')].modifiers)) =>
              (pc' = "delaying" /\ url' = url)]_vars

C18_Witness ==
    /\ pc = "inFlight"
    /\ delayCount >= 1
    /\ retryCount = 2
    /\ url = Url("https://elsewhere.example", OriginalPath, OriginalSearch)

RoundRobinRedirects ==
    {k \in 1..Len(evaluated) :
        strategies[evaluated[k].index].kind = "roundRobin"
            /\ IsRedirect(evaluated[k].modifiers)}

\* C19 (as stated): the first attempt uses the caller-supplied URL, and the
\* endpoint rotator is applied only for an attempt count above 0.
C19_Original_RotatorOnlyAboveZero ==
    /\ (retryCount <= 0 /\ evaluated = <<>>) => url = OriginalUrl
    /\ \A k \in RoundRobinRedirects : evaluated[k].context.retryCount > 0

\* C19 (as amended): the first attempt uses the caller-supplied URL; the
\* endpoint rotator is applied from attempt count 0 on: the first attempt,
\* which the policy answers with a throttled 429, is redirected by the
\* strategy to the endpoint at index (0 mod len) + 1 = 1, so rotation
\* engages at the first retry.
C19_RotatorAppliedAtZero ==
    /\ (retryCount <= 0 /\ evaluated = <<>>) => url = OriginalUrl
    /\ (/\ strategies # <<>>
        /\ strategies[1].kind = "roundRobin"
        /\ retryCount = 0
        /\ evaluated # <<>>) =>
          /\ 1 \in RoundRobinRedirects
          /\ evaluated[1].context.retryCount = 0
          /\ pc = "attempt"
          /\ url = IF Len(strategies[1].openAiHosts) >= 2
                   THEN Url(strategies[1].openAiHosts[2].base, OriginalPath, OriginalSearch)
                   ELSE Url("undefined", OriginalPath, OriginalSearch)

C19_Witness ==
    /\ strategies # <<>>
    /\ strategies[1].kind = "roundRobin"
    /\ Len(strategies[1].openAiHosts) = 2
    /\ retryCount = 0
    /\ pc = "attempt"
    /\ 1 \in RoundRobinRedirects
    /\ url.base = "https://backup1.example"

\* C21: in the cookbook's OpenAIEndpointCoordinator currentRetries is 0 in
\* every reachable state, whatever mockRetry and switchEndpoint calls were
\* made: mockRetry always passes the request to the next policy and never
\* answers with its own 429, and switchEndpoint never rewrites the request
\* URL.
C21_CurrentRetriesStaysZero ==
    /\ currentRetries = 0
    /\ response # MockedResponse
    /\ \A k \in 1..Len(policyLog) :
          /\ policyLog[k].forwarded
          /\ policyLog[k].urlAfter = policyLog[k].urlBefore

C21_Witness ==
    /\ pc = "idle"
    /\ Len(policyLog) >= 4
    /\ \E k \in 1..Len(policyLog) : policyLog[k].policy = "mockRetry" /\ k > 1
    /\ \E k \in 1..Len(policyLog) : policyLog[k].policy = "switchEndpoint"
    /\ Len(openAIEndpoints) = 2
    /\ response.status = 200
    /\ currentRetries = 0

====
